---- MODULE Spec2Model ----
(***************************************************************************)
(* Upbit weekday DCA bot (upbit_noon_weekday_dca.py).                      *)
(*                                                                         *)
(* The program is a stateless script that an external scheduler invokes    *)
(* many times a day.  The model runs several invocations of main() against *)
(* one exchange; invocations may overlap, and each network request is one  *)
(* atomic step.  The exchange keeps the orders it accepted and rejects a   *)
(* submission whose identifier it has already seen.                        *)
(***************************************************************************)
EXTENDS Integers, Sequences, FiniteSets, TLC

\* Invocations the scheduler starts in one behaviour.
MaxInvocations == 2

\* Invocation slots: two invocations may be alive at once.  A slot whose
\* invocation has ended and left is used by the next invocation.
Runs == {"a", "b"}

---------------------------------------------------------------------------
\* Module-level configuration (lines 28-54)

\* PAIRS: the two legs, weight as the fraction num/den.
PAIRS == << [market |-> "KRW-BTC", weight |-> <<1, 2>>],
            [market |-> "KRW-ETH", weight |-> <<1, 2>>] >>

Markets == {PAIRS[k].market : k \in 1..Len(PAIRS)}

\* A wall-clock instant (KST).  January 2024: the 1st is a Monday, so the 5th
\* is a Friday, the 6th a Saturday, the 7th a Sunday and the 8th a Monday.
T(d, h, m) == [year |-> 2024, month |-> 1, day |-> d, hour |-> h, minute |-> m]

\* Deployments: the environment-controlled window, budget and notification
\* settings (lines 31-40, 53-54) with the instants at which the scheduler of
\* that deployment starts invocations.  The defaults on an hourly schedule;
\* strict checking switched off for runs at noon, with a budget of 9001 and a
\* minimum order of 5000.5; a single-hour window of one minute with a budget
\* of 8000.  Amounts and rates are fractions << numerator, denominator >>.
Deployments ==
    { [STRICT_TIME_ONLY |-> TRUE,  ALLOWED_HOURS |-> 4..10, WINDOW_MINUTES |-> 30,
       TG |-> TRUE,
       DAILY_BUDGET_KRW |-> << 40000, 1 >>, FEE_RATE |-> << 5, 10000 >>,
       MIN_ORDER_KRW |-> << 5000, 1 >>,
       schedule |-> {T(5, 4, 0), T(5, 5, 30), T(5, 5, 31), T(5, 11, 0),
                     T(6, 4, 0), T(7, 5, 30)}],
      [STRICT_TIME_ONLY |-> FALSE, ALLOWED_HOURS |-> 4..10, WINDOW_MINUTES |-> 30,
       TG |-> FALSE,
       DAILY_BUDGET_KRW |-> << 9001, 1 >>, FEE_RATE |-> << 5, 10000 >>,
       MIN_ORDER_KRW |-> << 10001, 2 >>,
       schedule |-> {T(5, 12, 45), T(6, 12, 45), T(7, 12, 45), T(8, 12, 45)}],
      [STRICT_TIME_ONLY |-> TRUE,  ALLOWED_HOURS |-> {12},  WINDOW_MINUTES |-> 0,
       TG |-> FALSE,
       DAILY_BUDGET_KRW |-> << 8000, 1 >>, FEE_RATE |-> << 5, 10000 >>,
       MIN_ORDER_KRW |-> << 5000, 1 >>,
       schedule |-> {T(5, 12, 0), T(5, 12, 1), T(6, 12, 0), T(5, 4, 0)}] }

NoTime == T(0, 0, 0)

---------------------------------------------------------------------------
\* datetime helpers

\* datetime.weekday(): Mon=0..Sun=6.  Valid for January 2024.
weekday(now) == (now.day - 1) % 7

Pad2(n) == IF n < 10 THEN "0" \o ToString(n) ELSE ToString(n)

\* Faulty variant: a tag that also encodes the hour ("%Y%m%d%H")
date_tag_hourly(now) ==
    ToString(now.year) \o Pad2(now.month) \o Pad2(now.day) \o Pad2(now.hour)

\* now.strftime("%Y%m%d")
date_tag(now) == ToString(now.year) \o Pad2(now.month) \o Pad2(now.day)

\* Faulty variant: Saturday taken for a weekday
_is_weekday_kst_saturday(now) == weekday(now) <= 5

_is_weekday_kst(now) == weekday(now) <= 4

\* Faulty variant: the minute is not tested
_is_target_window_hour_only(cfg, now) ==
    IF ~cfg.STRICT_TIME_ONLY THEN TRUE ELSE now.hour \in cfg.ALLOWED_HOURS

\* Faulty variant: the last minute of the window is excluded
_is_target_window_exclusive(cfg, now) ==
    IF ~cfg.STRICT_TIME_ONLY
    THEN TRUE
    ELSE (now.hour \in cfg.ALLOWED_HOURS)
         /\ (0 <= now.minute /\ now.minute < cfg.WINDOW_MINUTES)

_is_target_window(cfg, now) ==
    IF ~cfg.STRICT_TIME_ONLY
    THEN TRUE
    ELSE (now.hour \in cfg.ALLOWED_HOURS)
         /\ (0 <= now.minute /\ now.minute <= cfg.WINDOW_MINUTES)

\* Faulty variant: a key that leaves the market out
identifier_no_market(tag, market) == "dca-" \o tag

\* f"dca-{date_tag}-{market}"
identifier(tag, market) == "dca-" \o tag \o "-" \o market

---------------------------------------------------------------------------
\* Order size (lines 69-75).  Python floats are modelled as exact fractions
\* << numerator, denominator >> with a positive denominator; the rounding of
\* binary floating point is outside the model.

\* Numerators of the budgets and minimums tried, in halves of a unit
MaxAmount == 4

Amounts == {<< n, 2 >> : n \in (0 - 2 * MaxAmount)..(2 * MaxAmount)}

\* Fee rates tried: none, the default 0.0005, a quarter, a half
FeeRates == { << 0, 1 >>, << 5, 10000 >>, << 1, 4 >>, << 1, 2 >> }

Leq(p, q) == p[1] * q[2] <= q[1] * p[2]

Plus(p, q) == << p[1] * q[2] + q[1] * p[2], p[2] * q[2] >>

Times(p, q) == << p[1] * q[1], p[2] * q[2] >>

\* p / q for q # 0
Over(p, q) ==
    IF q[1] > 0 THEN << p[1] * q[2], p[2] * q[1] >>
    ELSE << 0 - p[1] * q[2], 0 - p[2] * q[1] >>

\* int(x): the fraction is cut off towards zero
int(x) == IF x[1] >= 0 THEN x[1] \div x[2] ELSE 0 - ((0 - x[1]) \div x[2])

\* Faulty variant: the fee term has the wrong sign (fee_rate - 1.0)
_amount_net_of_fee_wrong_sign(budget, fee_rate, min_total) ==
    LET raw == Over(budget, Plus(fee_rate, << 0 - 1, 1 >>))
        price == int(raw)
    IN IF price < int(min_total) THEN int(min_total) ELSE price

_amount_net_of_fee(budget, fee_rate, min_total) ==
    LET raw == Over(budget, Plus(<< 1, 1 >>, fee_rate))
        price == int(raw)
    IN IF price < int(min_total) THEN int(min_total) ELSE price

---------------------------------------------------------------------------
\* HTTP replies.  A body is what r.json() would give: kind "text" is a body
\* that is not JSON, "list" a JSON value that is not an object, "dict" an
\* object with an optional "result", and an optional "error" object holding
\* an optional "message" and an optional "errors".  Texts are word lists.

Body(kind, hasError, message, hasErrors, errs, result) ==
    [kind |-> kind, hasError |-> hasError, message |-> message,
     hasErrors |-> hasErrors, errors |-> errs, result |-> result]

\* Absent "result" (dict.get gives None)
None == "None"

ErrBody(message) == Body("dict", TRUE, message, FALSE, <<>>, None)

\* Error bodies that say the identifier was already used.
DuplicateBodies ==
    { ErrBody(<<"Identifier", "Already", "Used">>),
      ErrBody(<<"identifier", "taken">>),
      ErrBody(<<"identifier", "exists">>),
      Body("dict", TRUE, <<"validation", "error">>, TRUE,
           <<"Identifier", "taken">>, None) }

\* Error bodies that say something else, or nothing readable.
OtherErrorBodies ==
    { ErrBody(<<"insufficient", "funds">>),
      ErrBody(<<"invalid", "identifier">>),
      ErrBody(<<"market", "already", "closed">>),
      ErrBody(<<>>),
      Body("dict", FALSE, <<>>, FALSE, <<>>, None),
      Body("text", FALSE, <<>>, FALSE, <<>>, None),
      Body("list", FALSE, <<>>, FALSE, <<>>, None) }

SuccessBodies ==
    { Body("dict", FALSE, <<>>, FALSE, <<>>, None),
      Body("dict", FALSE, <<>>, FALSE, <<>>, "success"),
      Body("dict", FALSE, <<>>, FALSE, <<>>, "error"),
      Body("text", FALSE, <<>>, FALSE, <<>>, None),
      Body("list", FALSE, <<>>, FALSE, <<>>, None) }

Fault == [status |-> "fault", body |-> Body("text", FALSE, <<>>, FALSE, <<>>, None)]

\* The exchange's answers to GET /v1/order?identifier=...: 200 when it holds
\* an order with that identifier, 404 when not; or the request fails.
Get(used, id) ==
    { [status |-> IF id \in used THEN "200" ELSE "404"], [status |-> "fault"] }

\* The exchange's answers to POST /v1/orders, with whether it recorded the
\* order.  An identifier already used is always rejected; a request can fail
\* in transport before or after the exchange has acted on it.
Post(used, id) ==
    IF id \in used
    THEN { [reply |-> [status |-> "error", body |-> b], recorded |-> FALSE] :
               b \in DuplicateBodies \cup OtherErrorBodies }
         \cup { [reply |-> Fault, recorded |-> FALSE] }
    ELSE { [reply |-> [status |-> "ok", body |-> b], recorded |-> b.result # "error"] :
               b \in SuccessBodies }
         \cup { [reply |-> [status |-> "error", body |-> b], recorded |-> FALSE] :
               b \in OtherErrorBodies }
         \cup { [reply |-> Fault, recorded |-> c] : c \in BOOLEAN }

---------------------------------------------------------------------------
\* Order gateway

\* Faulty variant: the text is not lowered
lower_missing(w) == w

\* str.lower() on the words the bodies use
lower(w) ==
    CASE w = "Identifier" -> "identifier"
      [] w = "Already"    -> "already"
      [] w = "Used"       -> "used"
      [] OTHER            -> w

\* `word in text.lower()`
Has(text, word) == \E k \in 1..Len(text) : lower(text[k]) = word

DupWording(text) ==
    Has(text, "identifier")
    /\ (Has(text, "already") \/ Has(text, "taken") \/ Has(text, "exists"))

_is_duplicate_identifier_error(resp_json) ==
    IF resp_json.kind # "dict" THEN FALSE
    ELSE LET msg == IF resp_json.hasError THEN resp_json.message ELSE <<>>
         IN IF DupWording(msg) THEN TRUE
            ELSE IF resp_json.hasError /\ resp_json.hasErrors
                 THEN DupWording(resp_json.errors)
                 ELSE FALSE

\* Faulty variant: any HTTP answer counts as found
_order_exists_any_answer(reply) ==
    IF reply.status = "fault" THEN FALSE ELSE TRUE

\* Faulty variant: a lookup that fails counts as found
_order_exists_fail_closed(reply) ==
    IF reply.status = "fault" THEN TRUE ELSE reply.status = "200"

\* GET /v1/order (lines 104-114): status 200 is found; any exception is
\* swallowed and gives False.
_order_exists_by_identifier(reply) ==
    IF reply.status = "fault" THEN FALSE ELSE reply.status = "200"

DuplicateAccepted == Body("dict", FALSE, <<>>, FALSE, <<>>, "duplicate_identifier_accepted")

\* What the call gives main: a returned value, or a raised exception.
_place_market_buy(reply) ==
    IF reply.status = "fault"
    THEN [raised |-> TRUE, res |-> reply.body]
    ELSE IF reply.status = "ok"
    THEN IF reply.body.kind = "text"
         THEN [raised |-> TRUE, res |-> reply.body]
         ELSE [raised |-> FALSE, res |-> reply.body]
    ELSE LET resp_json == IF reply.body.kind = "text"
                          THEN Body("dict", FALSE, <<>>, FALSE, <<>>, None)
                          ELSE reply.body
         IN IF _is_duplicate_identifier_error(resp_json)
            THEN [raised |-> FALSE, res |-> DuplicateAccepted]
            ELSE [raised |-> TRUE, res |-> reply.body]

\* Requests _send_telegram makes: one when both TG settings are present.
_send_telegram(cfg) == IF ~cfg.TG THEN 0 ELSE 1

\* What can become of a notification for a submission that was or was not
\* ok: not attempted, not configured, the request returned, or it failed.
Deliveries(cfg, ok) ==
    IF ~ok THEN {"none"}
    ELSE IF ~cfg.TG THEN {"unconfigured"}
    ELSE {"delivered", "fault"}

\* Faulty variant: a failed request escapes
_send_telegram_raises_unguarded(cfg, delivery) == cfg.TG /\ delivery = "fault"

\* Whether _send_telegram raises: the request sits in try/except Exception:
\* pass, and the status of the answer is not looked at.
_send_telegram_raises(cfg, delivery) == FALSE

---------------------------------------------------------------------------
\* State

VARIABLES
    cfg,        \* the deployment's window and notification settings
    started,    \* invocations started so far
    orders,     \* exchange: accepted orders [identifier, date, market]
    pc,         \* per invocation: idle, lookup, submit, done, fatal
    env,        \* per invocation: [pause, creds] (DCA_PAUSE, the two keys)
    invoked,    \* per invocation: wall-clock time at which it was started
    now,        \* per invocation: main's `now`, NoTime until it is read
    idx,        \* per invocation: position of the running for loop
    markets_todo, \* per invocation: main's markets_todo
    results,    \* per invocation: main's results
    errors,     \* per invocation: main's errors
    stdout,     \* per invocation: what it has printed
    exit,       \* per invocation: <<status>> once main has returned
    calls,      \* per invocation: network requests issued, by kind
    lookup,     \* per invocation and market: what the existence lookup gave
    lookup_identifier, \* per invocation and market: the key the lookup asked for
    outcome,    \* per invocation and market: the submission's reply and class
    alloc,      \* a call of _amount_net_of_fee on its own: arguments and result
    healthy,    \* exchange: from now on it answers every request without fault
    failed_earlier, \* << date, market >> whose submission failed in an
                \* invocation that has ended and left (kept for the properties)
    due,        \* per invocation: markets in failed_earlier for its date when
                \* it started
    settled     \* per invocation: it started when the exchange was healthy and
                \* held an order of its date for every market

vars == << cfg, started, orders, pc, env, invoked, now, idx, markets_todo,
           results, errors, stdout, exit, calls, lookup, lookup_identifier,
           outcome, alloc, healthy, failed_earlier, due, settled >>

NoCalls == [lookups |-> 0, submits |-> 0, notifies |-> 0]

NoLookup == [m \in Markets |-> "none"]

NoLookupIdentifier == [m \in Markets |-> ""]

NoOutcome ==
    [m \in Markets |-> [reply |-> "none", class |-> "none", identifier |-> "",
                        price_krw |-> 0, notice |-> "none"]]

Used == {o.identifier : o \in orders}

\* No call of _amount_net_of_fee on its own is under way
NoAlloc == [budget |-> << 0, 1 >>, larger |-> << 0, 1 >>, fee_rate |-> << 0, 1 >>,
            min_total |-> << 0, 1 >>, returned |-> FALSE, price |-> 0,
            price_larger |-> 0]

InitMain ==
    /\ cfg \in Deployments
    /\ started = 0
    /\ orders = {}
    /\ pc = [r \in Runs |-> "idle"]
    /\ env = [r \in Runs |-> [pause |-> FALSE, creds |-> TRUE]]
    /\ invoked = [r \in Runs |-> NoTime]
    /\ now = [r \in Runs |-> NoTime]
    /\ idx = [r \in Runs |-> 1]
    /\ markets_todo = [r \in Runs |-> <<>>]
    /\ results = [r \in Runs |-> <<>>]
    /\ errors = [r \in Runs |-> 0]
    /\ stdout = [r \in Runs |-> <<>>]
    /\ exit = [r \in Runs |-> <<>>]
    /\ calls = [r \in Runs |-> NoCalls]
    /\ lookup = [r \in Runs |-> NoLookup]
    /\ lookup_identifier = [r \in Runs |-> NoLookupIdentifier]
    /\ outcome = [r \in Runs |-> NoOutcome]

\* The exchange may fail at any time and nothing is remembered of earlier
\* invocations.
NoHistory ==
    /\ healthy = FALSE
    /\ failed_earlier = {}
    /\ due = [r \in Runs |-> {}]
    /\ settled = [r \in Runs |-> FALSE]

Init == InitMain /\ alloc = NoAlloc /\ NoHistory

---------------------------------------------------------------------------
\* Actions

\* print("Paused by DCA_PAUSE=1"): a line that is not JSON
PausedLine == [json |-> FALSE, results |-> <<>>, errors |-> 0]

\* print(json.dumps({..., "results": results, "errors": errors}))
Summary(entries, count) == [json |-> TRUE, results |-> entries, errors |-> count]

\* Faulty variant: a missing key is not noticed
_require_env_lenient(e) == FALSE

\* _require_env: raises when a key is missing
_require_env(e) == ~e.creds

\* Faulty variant: the gate never opens
Gate_closed(c, t) == "done"

\* Where main stands once it has read the clock (lines 164-174).
Gate(c, t) ==
    IF ~_is_weekday_kst(t) THEN "done"
    ELSE IF ~_is_target_window(c, t) THEN "done"
    ELSE "lookup"

\* Faulty variant: the keys are required before the pause test
main_entry_keys_first(e, c, t) ==
    IF _require_env(e) THEN "fatal"
    ELSE IF e.pause THEN "done"
    ELSE Gate(c, t)

\* Where main stands when it makes its first request or ends without one
\* (lines 158-172): the pause test, then the keys, then the clock.
main_entry(e, c, t) ==
    IF e.pause THEN "done"
    ELSE IF _require_env(e) THEN "fatal"
    ELSE Gate(c, t)

\* Faulty variant: the error count is ignored
exit_status_zero(count) == 0

\* return 1 if errors else 0
exit_status(count) == IF count # 0 THEN 1 ELSE 0

\* Faulty variant: a failed submission ends the loop
order_loop_abort(failed, i, n) == IF failed \/ i = n THEN "done" ELSE "submit"

\* Where the order loop stands after iteration i of n: the except clause
\* ends the iteration, not the loop.
order_loop(failed, i, n) == IF i = n THEN "done" ELSE "submit"

\* Faulty variant: a failed submission is tried again
for_next_retry(failed, i) == IF failed THEN i ELSE i + 1

\* The position of the for loop (line 191) after iteration i: the next
\* element, whatever the iteration did.
for_next(failed, i) == i + 1

\* The calendar date of an instant
Date(t) == << t.year, t.month, t.day >>

\* Markets of which the exchange holds an order of date d
Placed(d) == {o.market : o \in {x \in orders : x.date = d}}

\* The answers left to a healthy exchange: no transport fault
Answers(replies) ==
    IF healthy THEN {x \in replies : x.status # "fault"} ELSE replies

\* The answers left to a healthy exchange: no transport fault, and an
\* identifier not yet used is accepted and recorded
Accepting(posts, id) ==
    IF healthy
    THEN {p \in posts : p.reply.status # "fault" /\ (id \notin Used => p.recorded)}
    ELSE posts

\* No invocation has ended and not yet left.  The exit of a process touches
\* nothing shared, so it commutes with every step of the others: taking it
\* first loses no behaviour of the exchange or of any invocation.
NoneEnded == \A r \in Runs : pc[r] \notin {"done", "fatal"}

\* The scheduler starts an invocation: main from its first line up to the
\* first network request (lines 157-177).
Enter(r) ==
    /\ NoneEnded
    /\ pc[r] = "idle"
    /\ \E e \in [pause : BOOLEAN, creds : BOOLEAN], clock \in cfg.schedule :
         /\ env' = [env EXCEPT ![r] = e]
         /\ invoked' = [invoked EXCEPT ![r] = clock]
         /\ stdout' = [stdout EXCEPT ![r] = IF e.pause THEN <<PausedLine>> ELSE <<>>]
         /\ now' = [now EXCEPT ![r] =
                       IF main_entry(e, cfg, clock) = "fatal" \/ e.pause
                       THEN NoTime ELSE clock]
         /\ pc' = [pc EXCEPT ![r] = main_entry(e, cfg, clock)]
         /\ exit' = [exit EXCEPT ![r] =
                        IF main_entry(e, cfg, clock) = "done" THEN <<0>> ELSE <<>>]
         /\ due' = [due EXCEPT ![r] =
                       IF main_entry(e, cfg, clock) = "lookup"
                       THEN {m \in Markets : << Date(clock), m >> \in failed_earlier}
                       ELSE {}]
         /\ settled' = [settled EXCEPT ![r] =
                           /\ main_entry(e, cfg, clock) = "lookup"
                           /\ healthy
                           /\ Placed(Date(clock)) = Markets]
    /\ UNCHANGED << cfg, orders, idx, markets_todo, results, errors, calls, lookup,
                    lookup_identifier, outcome, alloc, healthy, failed_earlier >>

\* An invocation started by a scheduler that starts MaxInvocations of them
MainStart(r) ==
    /\ started < MaxInvocations
    /\ started' = started + 1
    /\ Enter(r)

\* An invocation started by a scheduler that never stops starting them
Invoke(r) ==
    /\ UNCHANGED started
    /\ Enter(r)

\* One iteration of the existence loop (lines 178-183) and, after the last
\* one, the test of lines 185-190.
Lookup(r) ==
    /\ NoneEnded
    /\ pc[r] = "lookup"
    /\ LET leg == PAIRS[idx[r]]
           id == identifier(date_tag(now[r]), leg.market)
       IN \E reply \in Answers(Get(Used, id)) :
            LET found == _order_exists_by_identifier(reply)
                todo == IF found THEN markets_todo[r]
                        ELSE Append(markets_todo[r], leg)
                last == idx[r] = Len(PAIRS)
            IN /\ lookup' = [lookup EXCEPT ![r][leg.market] = reply.status]
               /\ lookup_identifier' = [lookup_identifier EXCEPT ![r][leg.market] = id]
               /\ calls' = [calls EXCEPT ![r].lookups = @ + 1]
               /\ markets_todo' = [markets_todo EXCEPT ![r] = todo]
               /\ idx' = [idx EXCEPT ![r] = IF last THEN 1 ELSE @ + 1]
               /\ pc' = [pc EXCEPT ![r] =
                            IF ~last THEN "lookup"
                            ELSE IF todo = <<>> THEN "done" ELSE "submit"]
               /\ exit' = [exit EXCEPT ![r] =
                              IF last /\ todo = <<>> THEN <<0>> ELSE @]
    /\ UNCHANGED << cfg, started, orders, env, invoked, now, results, errors,
                    stdout, outcome, alloc, healthy, failed_earlier, due, settled >>

\* What main's try block (lines 196-221) makes of the gateway's answer.
\* entry: results.append is reached; ok: line 198; failed: errors += 1.
Classify(g) ==
    IF g.raised \/ g.res.kind # "dict"
    THEN [entry |-> FALSE, ok |-> FALSE, failed |-> TRUE, class |-> "failed"]
    ELSE LET ok == g.res.result \in {None, "success", "duplicate_identifier_accepted"}
         IN [entry |-> TRUE, ok |-> ok, failed |-> ~ok,
             class |-> IF ~ok THEN "failed"
                       ELSE IF g.res.result = "duplicate_identifier_accepted"
                       THEN "duplicate" ELSE "accepted"]

ReplyKind(reply) ==
    IF reply.status = "fault" THEN "fault"
    ELSE IF reply.status = "ok" THEN "ok"
    ELSE IF reply.body \in DuplicateBodies THEN "dup_error" ELSE "other_error"

\* One iteration of the order loop (lines 191-221): the submission, its
\* classification, the notification and the bookkeeping; after the last one,
\* the summary and the return (lines 224-236).
Submit(r) ==
    /\ NoneEnded
    /\ pc[r] = "submit"
    /\ LET leg == markets_todo[r][idx[r]]
           budget == Times(cfg.DAILY_BUDGET_KRW, leg.weight)
           price_krw == _amount_net_of_fee(budget, cfg.FEE_RATE, cfg.MIN_ORDER_KRW)
           id == identifier(date_tag(now[r]), leg.market)
           order == [identifier |-> id, date |-> Date(now[r]), market |-> leg.market]
       IN \E p \in Accepting(Post(Used, id), id) :
          \E delivery \in Deliveries(cfg, Classify(_place_market_buy(p.reply)).ok) :
            LET g == _place_market_buy(p.reply)
                answered == Classify(g)
                escaped == answered.ok /\ _send_telegram_raises(cfg, delivery)
                c == IF escaped
                     THEN [answered EXCEPT !.entry = FALSE, !.failed = TRUE]
                     ELSE answered
                entries == IF c.entry
                           THEN Append(results[r], [market |-> leg.market,
                                                    price_krw |-> price_krw,
                                                    identifier |-> id,
                                                    api_result |-> g.res.result])
                           ELSE results[r]
                count == IF c.failed THEN errors[r] + 1 ELSE errors[r]
                after == order_loop(c.failed, idx[r], Len(markets_todo[r]))
                last == after = "done"
            IN /\ orders' = IF p.recorded THEN orders \cup {order} ELSE orders
               /\ calls' = [calls EXCEPT ![r].submits = @ + 1,
                                         ![r].notifies =
                                             IF c.ok THEN @ + _send_telegram(cfg) ELSE @]
               /\ results' = [results EXCEPT ![r] = entries]
               /\ errors' = [errors EXCEPT ![r] = count]
               /\ stdout' = [stdout EXCEPT ![r] =
                                IF last
                                THEN Append(@, Summary(entries, count))
                                ELSE @]
               /\ exit' = [exit EXCEPT ![r] =
                              IF last THEN <<exit_status(count)>> ELSE @]
               /\ pc' = [pc EXCEPT ![r] = after]
               /\ outcome' = [outcome EXCEPT ![r][leg.market] =
                                 [reply |-> ReplyKind(p.reply), class |-> c.class,
                                  identifier |-> id, price_krw |-> price_krw,
                                  notice |-> delivery]]
               /\ idx' = [idx EXCEPT ![r] = for_next(c.failed, @)]
    /\ UNCHANGED << cfg, started, env, invoked, now, markets_todo, lookup,
                    lookup_identifier, alloc, healthy, failed_earlier, due, settled >>

\* An ended invocation leaves: the process and its memory are gone.
Leave(r) ==
    /\ pc[r] \in {"done", "fatal"}
    /\ pc' = [pc EXCEPT ![r] = "idle"]
    /\ env' = [env EXCEPT ![r] = [pause |-> FALSE, creds |-> TRUE]]
    /\ invoked' = [invoked EXCEPT ![r] = NoTime]
    /\ now' = [now EXCEPT ![r] = NoTime]
    /\ idx' = [idx EXCEPT ![r] = 1]
    /\ markets_todo' = [markets_todo EXCEPT ![r] = <<>>]
    /\ results' = [results EXCEPT ![r] = <<>>]
    /\ errors' = [errors EXCEPT ![r] = 0]
    /\ stdout' = [stdout EXCEPT ![r] = <<>>]
    /\ exit' = [exit EXCEPT ![r] = <<>>]
    /\ calls' = [calls EXCEPT ![r] = NoCalls]
    /\ lookup' = [lookup EXCEPT ![r] = NoLookup]
    /\ lookup_identifier' = [lookup_identifier EXCEPT ![r] = NoLookupIdentifier]
    /\ outcome' = [outcome EXCEPT ![r] = NoOutcome]
    /\ due' = [due EXCEPT ![r] = {}]
    /\ settled' = [settled EXCEPT ![r] = FALSE]
    /\ UNCHANGED << cfg, started, orders, alloc, healthy >>

Exit(r) == Leave(r) /\ UNCHANGED failed_earlier

\* The same, with the failed submissions of the invocation kept on record
ExitRemembered(r) ==
    /\ Leave(r)
    /\ failed_earlier' = failed_earlier \cup
           {<< Date(now[r]), m >> : m \in {x \in Markets : outcome[r][x].class = "failed"}}

Next ==
    \/ \E r \in Runs : MainStart(r)
    \/ \E r \in Runs : Lookup(r)
    \/ \E r \in Runs : Submit(r)
    \/ \E r \in Runs : Exit(r)

Spec == Init /\ [][Next]_vars

\* The exchange recovers: from now on it answers without fault.
Recover ==
    /\ ~healthy
    /\ healthy' = TRUE
    /\ UNCHANGED << cfg, started, orders, pc, env, invoked, now, idx, markets_todo,
                    results, errors, stdout, exit, calls, lookup, lookup_identifier,
                    outcome, alloc, failed_earlier, due, settled >>

\* The day on which invocations keep occurring: Friday, 5 January 2024
Day == << 2024, 1, 5 >>

\* An invocation of that day that passes the gate is started
InvokeEligible == \E r \in Runs : Invoke(r) /\ pc'[r] = "lookup" /\ Date(now'[r]) = Day

NextConverge ==
    \/ \E r \in Runs : Invoke(r)
    \/ \E r \in Runs : Lookup(r)
    \/ \E r \in Runs : Submit(r)
    \/ \E r \in Runs : ExitRemembered(r)
    \/ Recover

\* Invocations without end against an exchange that recovers: eligible
\* invocations of the day keep occurring, every request returns or times
\* out, and the exchange eventually answers without fault.
InitConverge == Init /\ cfg.STRICT_TIME_ONLY /\ ~cfg.TG

SpecConverge ==
    /\ InitConverge
    /\ [][NextConverge]_vars
    /\ \A r \in Runs :
          WF_vars(Lookup(r)) /\ WF_vars(Submit(r)) /\ WF_vars(ExitRemembered(r))
    /\ WF_vars(Recover)
    /\ SF_vars(InvokeEligible)

\* Every HTTP request returns or times out (timeout=12 on lines 112 and
\* 130), so an invocation that stands before a request takes that step; and
\* an ended process leaves.
FairSpec ==
    /\ Spec
    /\ \A r \in Runs : WF_vars(Lookup(r)) /\ WF_vars(Submit(r)) /\ WF_vars(Exit(r))

---------------------------------------------------------------------------
\* _amount_net_of_fee on its own: the function is called on a budget and on
\* a budget at least as large, with one fee rate and one minimum.

AllocInputs ==
    { a \in { [NoAlloc EXCEPT !.budget = b, !.larger = l, !.fee_rate = f,
                              !.min_total = m] :
                  b \in Amounts, l \in Amounts, f \in FeeRates, m \in Amounts } :
          Leq(a.budget, a.larger) }

InitAlloc == InitMain /\ alloc \in AllocInputs /\ NoHistory

Allocate ==
    /\ ~alloc.returned
    /\ alloc' = [alloc EXCEPT
                    !.returned = TRUE,
                    !.price = _amount_net_of_fee(alloc.budget, alloc.fee_rate,
                                                 alloc.min_total),
                    !.price_larger = _amount_net_of_fee(alloc.larger, alloc.fee_rate,
                                                        alloc.min_total)]
    /\ UNCHANGED << cfg, started, orders, pc, env, invoked, now, idx, markets_todo,
                    results, errors, stdout, exit, calls, lookup, lookup_identifier,
                    outcome, healthy, failed_earlier, due, settled >>

NextAlloc == Allocate

SpecAlloc == InitAlloc /\ [][NextAlloc]_vars

---------------------------------------------------------------------------
\* Vocabulary of the properties

Ended(r) == pc[r] \in {"done", "fatal"}

\* Markets whose submission the invocation has issued
Attempted(r) == {m \in Markets : outcome[r][m].reply # "none"}

\* Markets whose submission was classified failed
Failed(r) == {m \in Markets : outcome[r][m].class = "failed"}

TodoMarkets(r) == {markets_todo[r][k].market : k \in 1..Len(markets_todo[r])}

\* dca-<date>-<market> for the dates of January 2024
ExpectedKey(t, m) ==
    "dca-202401" \o (IF t.day < 10 THEN "0" ELSE "") \o ToString(t.day) \o "-" \o m

OrdersFor(d, m) == {o \in orders : o.date = d /\ o.market = m}

---------------------------------------------------------------------------
\* C1: for every calendar date and asset, however many invocations run on
\* that date and however their lookups and submissions interleave, the
\* exchange holds at most one accepted order for that (date, asset), and
\* every submission for it carries the identifier dca-<date>-<market>.
C1_AtMostOneOrderPerDayAndAsset ==
    /\ \A o1 \in orders : \A o2 \in orders :
          (o1.date = o2.date /\ o1.market = o2.market) => o1 = o2
    /\ \A r \in Runs : \A m \in Attempted(r) :
          outcome[r][m].identifier = ExpectedKey(invoked[r], m)

\* Two invocations of the same date at different hours have both submitted
\* the same asset: one was accepted, the other rejected as a duplicate.
C1_Witness ==
    \E r1 \in Runs : \E r2 \in Runs : \E m \in Markets :
        /\ r1 # r2
        /\ Date(invoked[r1]) = Date(invoked[r2])
        /\ invoked[r1].hour # invoked[r2].hour
        /\ outcome[r1][m].class = "accepted"
        /\ outcome[r2][m].reply = "dup_error"
        /\ Cardinality(OrdersFor(Date(invoked[r1]), m)) = 1

\* C2: a completed run exits 1 exactly when its error count is positive,
\* which is exactly when a submission of the run was classified failed; the
\* runs that submit nothing (paused, gated out, all found) exit 0.
C2_ExitStatusFromErrors ==
    \A r \in Runs :
        pc[r] = "done" =>
            /\ exit[r] \in {<<0>>, <<1>>}
            /\ (exit[r] = <<1>>) <=> (errors[r] > 0)
            /\ (errors[r] > 0) <=> (Failed(r) # {})
            /\ (calls[r].submits = 0) => exit[r] = <<0>>

\* A run has completed with a failed submission and exit status 1.
C2_Witness ==
    \E r \in Runs :
        pc[r] = "done" /\ Failed(r) # {} /\ errors[r] > 0 /\ exit[r] = <<1>>

\* C3: a submission rejected with an HTTP error whose body says the
\* identifier was already used is classified duplicate, is in the results
\* as duplicate_identifier_accepted, is not counted in errors, does not make
\* the exit status 1, and carried the identifier of the order the exchange
\* already holds for that date and asset.
C3_DuplicateIsSuccess ==
    \A r \in Runs : \A m \in Markets :
        outcome[r][m].reply = "dup_error" =>
            /\ outcome[r][m].class = "duplicate"
            /\ \E k \in 1..Len(results[r]) :
                   /\ results[r][k].market = m
                   /\ results[r][k].api_result = "duplicate_identifier_accepted"
            /\ errors[r] = Cardinality(Failed(r))
            /\ (pc[r] = "done" /\ Failed(r) = {}) => exit[r] = <<0>>
            /\ \E o \in OrdersFor(Date(invoked[r]), m) :
                   o.identifier = outcome[r][m].identifier

\* A run whose lookup answered 404 was then rejected as a duplicate (another
\* invocation got in between); it completed with no error and exit status 0.
C3_Witness ==
    \E r \in Runs : \E m \in Markets :
        /\ lookup[r][m] = "404"
        /\ outcome[r][m].reply = "dup_error"
        /\ pc[r] = "done"
        /\ errors[r] = 0
        /\ exit[r] = <<0>>

\* C4: a failed submission is isolated to its asset: the run goes on to
\* submit every remaining asset of its to-do list, the error count is the
\* number of failed assets, and a run with a failed asset exits 1.
C4_FailureIsolated ==
    \A r \in Runs :
        /\ errors[r] = Cardinality(Failed(r))
        /\ pc[r] = "done" =>
              /\ Attempted(r) = TodoMarkets(r)
              /\ calls[r].submits = Len(markets_todo[r])
              /\ Failed(r) # {} => exit[r] = <<1>>

\* The first asset failed on a non-duplicate HTTP error, the second was then
\* submitted and accepted: one error, exit status 1.
C4_Witness ==
    \E r \in Runs :
        /\ pc[r] = "done"
        /\ outcome[r][PAIRS[1].market].reply = "other_error"
        /\ outcome[r][PAIRS[1].market].class = "failed"
        /\ outcome[r][PAIRS[2].market].class = "accepted"
        /\ errors[r] = 1
        /\ exit[r] = <<1>>

---------------------------------------------------------------------------
\* Vocabulary of the gate properties

\* Day of the week of the instants used (January 2024)
DayName(t) ==
    CASE t.day = 5 -> "Fri"
      [] t.day = 6 -> "Sat"
      [] t.day = 7 -> "Sun"
      [] t.day = 8 -> "Mon"
      [] OTHER     -> "none"

\* Eligibility as the specification words it
Eligible(c, t) ==
    /\ DayName(t) \in {"Mon", "Tue", "Wed", "Thu", "Fri"}
    /\ \/ ~c.STRICT_TIME_ONLY
       \/ (t.hour \in c.ALLOWED_HOURS /\ 0 <= t.minute /\ t.minute <= c.WINDOW_MINUTES)

\* The run went past the gate: it is in, or has been through, the lookups
PassedGate(r) == pc[r] \in {"lookup", "submit"} \/ calls[r].lookups > 0

\* The JSON summaries the run has written to standard output
Summaries(r) == {k \in 1..Len(stdout[r]) : stdout[r][k].json}

---------------------------------------------------------------------------
\* C5 (as claimed): the summary of a completed run holds an entry for every
\* asset whose submission was attempted, failed ones included.
C5_SummaryHasEveryAttempt ==
    \A r \in Runs :
        (pc[r] = "done" /\ Summaries(r) # {}) =>
            \A m \in Attempted(r) : \A k \in Summaries(r) :
                \E j \in 1..Len(stdout[r][k].results) :
                    stdout[r][k].results[j].market = m

\* C6 (as claimed): every run with the pause flag off that returns has
\* written the JSON summary.
C6_SummaryOnEveryNonPausedRun ==
    \A r \in Runs :
        (pc[r] = "done" /\ ~env[r].pause) => Summaries(r) # {}

\* C6 (amended): a run with the pause flag off that returns has written the
\* JSON summary, once, with its results and error count, exactly when its
\* time passed the guard and at least one asset was not found already
\* ordered; a run stopped at the gate, or with every asset found, writes
\* nothing to standard output.
C6_SummaryExactlyWhenSubmitting ==
    \A r \in Runs :
        (pc[r] = "done" /\ ~env[r].pause) =>
            IF Eligible(cfg, invoked[r]) /\ (\E m \in Markets : lookup[r][m] # "200")
            THEN stdout[r] = << Summary(results[r], errors[r]) >>
            ELSE stdout[r] = << >>

\* A run at an eligible time found one asset already ordered, submitted the
\* other and wrote the summary.
C6_Witness ==
    \E r \in Runs : \E m \in Markets :
        /\ pc[r] = "done" /\ ~env[r].pause
        /\ lookup[r][m] = "200"
        /\ Cardinality(Summaries(r)) = 1
        /\ Len(stdout[r][1].results) = 1

\* C7 (as claimed): a run whose time fails the guard issues no network call
\* and ends with exit status 0.
C7_GateFailureExitsZero ==
    \A r \in Runs :
        (Ended(r) /\ ~Eligible(cfg, invoked[r])) =>
            /\ calls[r] = NoCalls
            /\ exit[r] = <<0>>

\* C7 (amended): a run whose time fails the guard issues no network call;
\* it ends with exit status 0 when the pause flag is set or both keys are
\* present, and otherwise aborts in _require_env with no exit status of main.
C7_GateFailureNoNetwork ==
    \A r \in Runs :
        (pc[r] # "idle" /\ ~Eligible(cfg, invoked[r])) =>
            /\ calls[r] = NoCalls
            /\ Ended(r)
            /\ IF env[r].pause \/ env[r].creds
               THEN pc[r] = "done" /\ exit[r] = <<0>>
               ELSE pc[r] = "fatal" /\ exit[r] = << >>

\* A run with both keys, not paused, on a weekday one minute past the window
\* has ended with exit status 0 and no request.
C7_Witness ==
    \E r \in Runs :
        /\ ~env[r].pause /\ env[r].creds
        /\ cfg.STRICT_TIME_ONLY
        /\ DayName(invoked[r]) = "Fri"
        /\ invoked[r].hour \in cfg.ALLOWED_HOURS
        /\ invoked[r].minute = cfg.WINDOW_MINUTES + 1
        /\ pc[r] = "done" /\ exit[r] = <<0>> /\ calls[r] = NoCalls

\* C8: with the pause flag set main returns 0 at once and issues no request,
\* whatever the time and whether or not the keys are present.
C8_PausedRunDoesNothing ==
    \A r \in Runs :
        env[r].pause =>
            /\ pc[r] = "done"
            /\ exit[r] = <<0>>
            /\ calls[r] = NoCalls
            /\ stdout[r] = << PausedLine >>

\* A paused run without keys at an eligible time has returned 0.
C8_Witness ==
    \E r \in Runs :
        /\ env[r].pause /\ ~env[r].creds
        /\ Eligible(cfg, invoked[r])
        /\ pc[r] = "done" /\ exit[r] = <<0>>

\* C9: a run that reaches the gate passes it exactly when the weekday is
\* Monday..Friday and (strict checking is off, or the hour is allowed and
\* the minute is within 0..WINDOW_MINUTES); so never on Saturday or Sunday,
\* and with strict checking off on every weekday instant.
C9_EligibilityExact ==
    \A r \in Runs :
        (pc[r] # "idle" /\ ~env[r].pause /\ env[r].creds) =>
            /\ PassedGate(r) <=> Eligible(cfg, invoked[r])
            /\ DayName(invoked[r]) \in {"Sat", "Sun"} => ~PassedGate(r)
            /\ ~cfg.STRICT_TIME_ONLY =>
                  (PassedGate(r) <=> DayName(invoked[r]) \notin {"Sat", "Sun"})

\* With strict checking on, a run at minute WINDOW_MINUTES of an allowed
\* hour of a weekday has passed the gate.
C9_Witness ==
    \E r \in Runs :
        /\ cfg.STRICT_TIME_ONLY
        /\ DayName(invoked[r]) = "Fri"
        /\ invoked[r].hour \in cfg.ALLOWED_HOURS
        /\ invoked[r].minute = cfg.WINDOW_MINUTES
        /\ cfg.WINDOW_MINUTES > 0
        /\ PassedGate(r)

\* C10: within one invocation an asset whose lookup answered 200 is not
\* submitted, every other asset is; a submission is issued only after that
\* asset's lookup in the same run did not answer 200; when every asset is
\* found the run exits 0 without a submission.
C10_FoundIsSkipped ==
    \A r \in Runs :
        /\ \A m \in Markets :
              /\ lookup[r][m] = "200" => (m \notin Attempted(r) /\ m \notin TodoMarkets(r))
              /\ m \in Attempted(r) => lookup[r][m] \in {"404", "fault"}
              /\ (pc[r] = "done" /\ lookup[r][m] \in {"404", "fault"}) => m \in Attempted(r)
        /\ pc[r] = "submit" => \A m \in Markets : lookup[r][m] # "none"
        /\ (pc[r] = "done" /\ \A m \in Markets : lookup[r][m] = "200") =>
              (exit[r] = <<0>> /\ calls[r].submits = 0)

\* A completed run found the first asset already ordered and skipped it,
\* and submitted the second, whose lookup answered 404.
C10_Witness ==
    \E r \in Runs :
        /\ pc[r] = "done"
        /\ lookup[r][PAIRS[1].market] = "200"
        /\ lookup[r][PAIRS[2].market] = "404"
        /\ Attempted(r) = {PAIRS[2].market}
        /\ calls[r].submits = 1

---------------------------------------------------------------------------
\* C11: an existence lookup that ends in a transport fault is taken as "not
\* found": the asset is put on the to-do list and submitted in the same
\* invocation, and the fault itself is never counted: the error count is
\* the number of failed submissions, and the exit status is 0 when no
\* submission failed.
C11_LookupFaultMeansNotFound ==
    \A r \in Runs : \A m \in Markets :
        lookup[r][m] = "fault" =>
            /\ m \in TodoMarkets(r)
            /\ pc[r] = "done" => m \in Attempted(r)
            /\ errors[r] = Cardinality(Failed(r))
            /\ (pc[r] = "done" /\ Failed(r) = {}) => exit[r] = <<0>>

\* Both lookups of an invocation failed in transport; both assets were
\* submitted and accepted, no error was counted and the status is 0.
C11_Witness ==
    \E r \in Runs :
        /\ pc[r] = "done"
        /\ \A m \in Markets :
              lookup[r][m] = "fault" /\ outcome[r][m].class = "accepted"
        /\ errors[r] = 0
        /\ exit[r] = <<0>>

---------------------------------------------------------------------------
\* C12: the idempotency key depends on the KST date and the asset only: two
\* submissions carry the same key exactly when they are for the same date
\* and the same asset, whatever the hour and minute of the invocations, and
\* the key an invocation looked an asset up with is the key it submits it
\* with.
C12_KeyIsFunctionOfDateAndAsset ==
    /\ \A r1 \in Runs : \A r2 \in Runs :
          \A m1 \in Attempted(r1) : \A m2 \in Attempted(r2) :
              (outcome[r1][m1].identifier = outcome[r2][m2].identifier)
                  <=> (Date(now[r1]) = Date(now[r2]) /\ m1 = m2)
    /\ \A r \in Runs : \A m \in Attempted(r) :
          lookup_identifier[r][m] = outcome[r][m].identifier

\* Two invocations of one date, started at different minutes, submitted the
\* same asset under one key, and one of them another asset under another.
C12_Witness ==
    \E r1 \in Runs : \E r2 \in Runs : \E m \in Markets : \E n \in Markets :
        /\ r1 # r2 /\ m # n
        /\ m \in Attempted(r1) /\ m \in Attempted(r2) /\ n \in Attempted(r1)
        /\ Date(now[r1]) = Date(now[r2])
        /\ << now[r1].hour, now[r1].minute >> # << now[r2].hour, now[r2].minute >>
        /\ outcome[r1][m].identifier = outcome[r2][m].identifier
        /\ outcome[r1][n].identifier # outcome[r1][m].identifier
        /\ lookup_identifier[r2][m] = outcome[r1][m].identifier

---------------------------------------------------------------------------
\* The budget divided by one plus the fee rate, as the exact fraction
Raw(a) == Over(a.budget, Plus(<< 1, 1 >>, a.fee_rate))

\* floor of a fraction
Floor(x) == x[1] \div x[2]

\* C13: for every budget, fee rate f >= 0 and minimum m the amount a
\* returned by _amount_net_of_fee satisfies a * (1 + f) <= B or a = m, and
\* it is a whole number obtained by flooring: the floor of B / (1 + f), or
\* the minimum.
C13_WithinBudgetOrMinimum ==
    alloc.returned =>
        LET a == << alloc.price, 1 >>
        IN /\ \/ Leq(Times(a, Plus(<< 1, 1 >>, alloc.fee_rate)), alloc.budget)
              \/ (Leq(a, alloc.min_total) /\ Leq(alloc.min_total, a))
           /\ \/ alloc.price = Floor(Raw(alloc))
              \/ (Leq(a, alloc.min_total) /\ Leq(alloc.min_total, a))

---------------------------------------------------------------------------
\* C15: _amount_net_of_fee is monotonically non-decreasing in the budget:
\* for one fee rate f >= 0 and one minimum, a budget at least as large gives
\* an amount at least as large.
C15_MonotoneInBudget ==
    (alloc.returned /\ Leq(alloc.budget, alloc.larger))
        => alloc.price <= alloc.price_larger

\* The function was called with a positive fee rate on a budget whose
\* amount is the minimum and on a larger budget whose amount is larger.
C15_Witness ==
    /\ alloc.returned
    /\ alloc.fee_rate[1] > 0
    /\ ~Leq(alloc.larger, alloc.budget)
    /\ alloc.price = int(alloc.min_total)
    /\ alloc.price < alloc.price_larger

---------------------------------------------------------------------------
\* The weight PAIRS gives a market
Weight(m) == (CHOOSE k \in 1..Len(PAIRS) : PAIRS[k].market = m)

\* C14: the amount submitted for an asset is the larger of
\* floor((DAILY_BUDGET * weight) / (1 + fee rate)) and the minimum order:
\* 19990 for budget 40000, weight 0.5, fee 0.0005, minimum 5000, and 5000
\* for budget 8000 with the same weight, fee and minimum.
C14_AmountSubmitted ==
    \A r \in Runs : \A m \in Attempted(r) :
        LET a == << outcome[r][m].price_krw, 1 >>
            fl == << Floor(Over(Times(cfg.DAILY_BUDGET_KRW, PAIRS[Weight(m)].weight),
                                Plus(<< 1, 1 >>, cfg.FEE_RATE))), 1 >>
            mx == IF Leq(fl, cfg.MIN_ORDER_KRW) THEN cfg.MIN_ORDER_KRW ELSE fl
        IN /\ Leq(a, mx) /\ Leq(mx, a)
           /\ (cfg.DAILY_BUDGET_KRW = << 40000, 1 >> /\ cfg.MIN_ORDER_KRW = << 5000, 1 >>)
                 => outcome[r][m].price_krw = 19990
           /\ (cfg.DAILY_BUDGET_KRW = << 8000, 1 >> /\ cfg.MIN_ORDER_KRW = << 5000, 1 >>)
                 => outcome[r][m].price_krw = 5000

---------------------------------------------------------------------------
\* Markets for which a notification request was made
Notified(r) == {m \in Markets : outcome[r][m].notice \in {"delivered", "fault"}}

\* C16: a notification is attempted only for a submission classified
\* accepted or duplicate, and what becomes of it (delivered, failed, not
\* configured) changes nothing: the error count is the number of failed
\* submissions, every submission that returned has its entry, the assets
\* after it are still submitted, and the exit status follows the failed
\* submissions alone.
C16_NotificationIsBestEffort ==
    \A r \in Runs :
        /\ \A m \in Markets :
              outcome[r][m].notice # "none"
                  => outcome[r][m].class \in {"accepted", "duplicate"}
        /\ calls[r].notifies = Cardinality(Notified(r))
        /\ errors[r] = Cardinality(Failed(r))
        /\ \A m \in Attempted(r) \ Failed(r) :
              \E k \in 1..Len(results[r]) : results[r][k].market = m
        /\ pc[r] = "done" /\ PassedGate(r) => Attempted(r) = TodoMarkets(r)
        /\ (pc[r] = "done" /\ Attempted(r) # {})
              => exit[r] = << IF Failed(r) = {} THEN 0 ELSE 1 >>

\* The notification for the first asset failed, the second asset was then
\* submitted, accepted and notified, and the invocation ended with status 0.
C16_Witness ==
    \E r \in Runs :
        /\ pc[r] = "done"
        /\ outcome[r][PAIRS[1].market].notice = "fault"
        /\ outcome[r][PAIRS[2].market].notice = "delivered"
        /\ outcome[r][PAIRS[2].market].class = "accepted"
        /\ errors[r] = 0
        /\ exit[r] = <<0>>

---------------------------------------------------------------------------
\* C17: an invocation that is not paused and lacks a required key aborts
\* with the fatal configuration error before any network request: it makes
\* no lookup, no submission and no notification, reads no clock, prints
\* nothing and returns no status; and only such an invocation aborts.
C17_MissingKeyAbortsBeforeNetwork ==
    \A r \in Runs :
        /\ (pc[r] # "idle" /\ ~env[r].pause /\ ~env[r].creds)
              => /\ pc[r] = "fatal"
                 /\ calls[r] = NoCalls
                 /\ now[r] = NoTime
                 /\ stdout[r] = <<>>
                 /\ exit[r] = <<>>
        /\ pc[r] = "fatal" => (~env[r].pause /\ ~env[r].creds)

\* An invocation started without its keys at an instant at which it would
\* have traded has aborted, while the exchange holds no order.
C17_Witness ==
    \E r \in Runs :
        /\ pc[r] = "fatal"
        /\ Eligible(cfg, invoked[r])
        /\ calls[r] = NoCalls
        /\ orders = {}

---------------------------------------------------------------------------
\* C18: every HTTP-success answer to a submission is classified accepted and
\* not counted as an error unless its result field signals failure (also
\* when the body has no result field, or cannot be read as a result); an
\* HTTP error with duplicate wording is classified duplicate; any other
\* HTTP error and any transport fault is classified failed.
C18_ResponseClassification ==
    \A r \in Runs :
        /\ errors[r] = Cardinality(Failed(r))
        /\ \A m \in Attempted(r) :
              /\ outcome[r][m].reply = "ok"
                    => \/ outcome[r][m].class = "accepted"
                       \/ \E k \in 1..Len(results[r]) :
                             /\ results[r][k].market = m
                             /\ results[r][k].api_result = "error"
              /\ outcome[r][m].reply = "dup_error"
                    => outcome[r][m].class = "duplicate"
              /\ outcome[r][m].reply \in {"other_error", "fault"}
                    => outcome[r][m].class = "failed"

---------------------------------------------------------------------------
\* Markets the invocation has looked up
LookedUp(r) == {m \in Markets : lookup[r][m] # "none"}

\* The invocation works through its lists in order, one request at a time,
\* with one lookup per asset of PAIRS and one submission per asset to do.
C19_OneRequestPerAsset ==
    \A r \in Runs :
        /\ calls[r].lookups = Cardinality(LookedUp(r))
        /\ calls[r].submits = Cardinality(Attempted(r))
        /\ calls[r].lookups <= Len(PAIRS)
        /\ calls[r].submits <= Len(markets_todo[r])
        /\ pc[r] = "lookup"
              => /\ LookedUp(r) = {PAIRS[k].market : k \in 1..(idx[r] - 1)}
                 /\ Attempted(r) = {}
        /\ pc[r] = "submit"
              => /\ LookedUp(r) = Markets
                 /\ Attempted(r) = {markets_todo[r][k].market : k \in 1..(idx[r] - 1)}

\* C19: every invocation of main ends, with an exit status or with the
\* fatal configuration error, provided every request returns or times out;
\* it goes through the assets in order with one request at a time, making
\* at most one lookup and at most one submission per asset and no retry.
C19_TerminatesWithoutRetry ==
    /\ []C19_OneRequestPerAsset
    /\ \A r \in Runs : (pc[r] \in {"lookup", "submit"}) ~> Ended(r)

\* An invocation has ended after two lookups and two submissions, the first
\* of which failed.
C19_Witness ==
    \E r \in Runs :
        /\ pc[r] = "done"
        /\ calls[r].lookups = Len(PAIRS)
        /\ calls[r].submits = Len(PAIRS)
        /\ outcome[r][PAIRS[1].market].class = "failed"
        /\ exit[r] = <<1>>

---------------------------------------------------------------------------
Converged == \A m \in Markets : Cardinality(OrdersFor(Day, m)) = 1

\* An asset whose submission failed earlier is attempted again or found at
\* the exchange
C20_FailedIsRetriedOrFound ==
    \A r \in Runs : \A m \in due[r] :
        /\ pc[r] \in {"submit", "done"}
              => \/ m \in TodoMarkets(r)
                 \/ (lookup[r][m] = "200" /\ m \in Placed(Date(now[r])))
        /\ pc[r] = "done" /\ m \in TodoMarkets(r) => m \in Attempted(r)

\* An invocation started after convergence submits nothing and returns 0
C20_SettledIsQuiet ==
    \A r \in Runs :
        settled[r] => /\ pc[r] \in {"lookup", "done"}
                      /\ calls[r].submits = 0
                      /\ pc[r] = "done" => exit[r] = <<0>>

====
